---- MODULE Spec2Model ----
(***************************************************************************)
(* Model of components/esp32/aes.c: the ESP32 hardware AES wrapper.        *)
(*                                                                         *)
(* One physical AES engine (the ROM ets_aes routines) is shared by all     *)
(* AES_CTX contexts.  esp_aes_init/esp_aes_free count the contexts and     *)
(* power the engine, esp_aes_setkey_enc/dec keep a per-context key record, *)
(* esp_aes_crypt_ecb installs the record and transforms one block under    *)
(* the engine lock, and CBC, CFB128, CFB8 and CTR are loops around         *)
(* esp_aes_crypt_ecb.                                                      *)
(*                                                                         *)
(* Spec     : threads, each with a context of its own, calling the API     *)
(*            concurrently; every handler is cut at its lock operations    *)
(*            and at its accesses to the engine.                           *)
(* ModeSpec : one caller, whole calls, used for the relations between      *)
(*            calls of the mode functions.                                 *)
(***************************************************************************)
EXTENDS Integers, Sequences, FiniteSets, TLC

(***************************************************************************)
(* Program constants                                                       *)
(***************************************************************************)
AES_ENCRYPT == 1
AES_DECRYPT == 0
BLOCK == 16
KEY_SIZE == 32

ERR_AES_INVALID_KEY_LENGTH == "ERR_AES_INVALID_KEY_LENGTH"
ERR_AES_INVALID_INPUT_LENGTH == "ERR_AES_INVALID_INPUT_LENGTH"
OK == "0"

(***************************************************************************)
(* Bounds of the model                                                     *)
(***************************************************************************)
\* Spec: esp_aes_crypt_cbc is called with 0..SpecBlocks whole blocks
SpecBlocks == 1
\* Spec: the stream modes are called with 0..SpecStream bytes
SpecStream == 1
\* ModeSpec: CBC buffers of 0..MaxBlocks whole blocks
MaxBlocks == 2
\* ModeSpec: stream buffers (CFB128, CFB8, CTR) of 0..MaxStream bytes
MaxStream == 3

Threads == {"t1", "t2"}
NoThread == "none"
\* Spec: the threads that call esp_aes_crypt_cbc; every thread calls
\* esp_aes_init, esp_aes_free, the key setters and esp_aes_crypt_ecb, the
\* functions that touch the engine
ModeCallers == {"t1"}

(***************************************************************************)
(* Bytes and blocks                                                        *)
(***************************************************************************)
RECURSIVE XorBits(_, _, _)
XorBits(a, b, n) ==
    IF n = 0 THEN 0
    ELSE (((a % 2) + (b % 2)) % 2) + 2 * XorBits(a \div 2, b \div 2, n - 1)

\* the C expression (unsigned char)( a ^ b )
Xor(a, b) == XorBits(a, b, 8)

XorBlock(x, y) == [i \in 1..BLOCK |-> Xor(x[i], y[i])]

Fill(n, v) == [i \in 1..n |-> v]

\* a block whose bytes are  base, base+step, base+2*step, ...  (mod 256)
Ramp(n, base, step) == [i \in 1..n |-> (base + (i - 1) * step) % 256]

(***************************************************************************)
(* The block primitive (ROM): a keyed permutation of the 16-byte blocks    *)
(* and its inverse.  The permutation mixes byte positions, its byte 0      *)
(* depends on every byte of the input block, and it depends on every key   *)
(* byte that is in use and on the key length.                              *)
(***************************************************************************)
RECURSIVE SumSeq(_, _)
SumSeq(s, n) == IF n = 0 THEN 0 ELSE s[n] + SumSeq(s, n - 1)

KeyByte(keybit, key, i) ==
    (key[((i - 1) % (keybit \div 8)) + 1] + SumSeq(key, keybit \div 8) + keybit \div 64) % 256

\* what byte 0 of a ciphertext block takes from the other plaintext bytes
Mix(blk) == SumSeq(blk, BLOCK) - blk[2]

encryptBlock(keybit, key, input) ==
    [i \in 1..BLOCK |->
        LET j == (i % BLOCK) + 1
        IN  (input[j] + (IF i = 1 THEN Mix(input) ELSE 0)
                      + KeyByte(keybit, key, j) + j) % 256]

decryptBlock(keybit, key, input) ==
    LET p == [j \in 1..BLOCK |->
                LET i == ((j + BLOCK - 2) % BLOCK) + 1
                IN  (input[i] + 2 * 256 - KeyByte(keybit, key, j) - j) % 256]
    IN  [j \in 1..BLOCK |->
            IF j = 2 THEN (p[2] + BLOCK * 256 - Mix(p)) % 256 ELSE p[j]]

(***************************************************************************)
(* The engine: power state and the one key schedule it holds               *)
(***************************************************************************)
\* the engine before any key was installed: the all-zero 128-bit schedule
EngineReset ==
    [enabled |-> FALSE, dir |-> AES_ENCRYPT, keybit |-> 128, key |-> Fill(16, 0)]

ets_aes_enable(eng) == [eng EXCEPT !.enabled = TRUE]

ets_aes_disable(eng) == [eng EXCEPT !.enabled = FALSE]

ets_aes_setkey_enc(eng, key, keybit) ==
    [eng EXCEPT !.dir = AES_ENCRYPT, !.keybit = keybit,
                !.key = SubSeq(key, 1, keybit \div 8)]

ets_aes_setkey_dec(eng, key, keybit) ==
    [eng EXCEPT !.dir = AES_DECRYPT, !.keybit = keybit,
                !.key = SubSeq(key, 1, keybit \div 8)]

\* the key schedule the engine holds
Schedule(eng) == [dir |-> eng.dir, keybit |-> eng.keybit, key |-> eng.key]

ets_aes_crypt(eng, input) ==
    IF eng.dir = AES_ENCRYPT
    THEN encryptBlock(eng.keybit, eng.key, input)
    ELSE decryptBlock(eng.keybit, eng.key, input)

(***************************************************************************)
(* The engine handle (esp_crypto.h): lock and reference count              *)
(***************************************************************************)
AES_TAKE(sig) == sig + 1

AES_GIVE(sig) == sig - 1

AES_IS_USED(sig) == sig # 0

(***************************************************************************)
(* AES_CTX and the key setters                                             *)
(***************************************************************************)
ZeroKey == [keyflag |-> FALSE, keybits |-> 0, key |-> Fill(KEY_SIZE, 0)]

\* memset( ctx, 0, sizeof( AES_CTX ) )
ZeroCtx == [enc |-> ZeroKey, dec |-> ZeroKey]

\* a switch with one more accepted length
ValidKeybitsLax(keybits) == keybits \in {100, 128, 192, 256}

\* the switch on keybits
ValidKeybits(keybits) == keybits \in {128, 192, 256}

\* memset(ctx->enc.key, 0, ...); memcpy(ctx->enc.key, key, keybyte)
StoreKey(key, keybyte) ==
    [i \in 1..KEY_SIZE |-> IF i <= keybyte /\ i <= Len(key) THEN key[i] ELSE 0]

esp_aes_setkey_enc(c, eng, key, keybits) ==
    IF ~ValidKeybits(keybits)
    THEN [ctx |-> c, eng |-> eng, ret |-> ERR_AES_INVALID_KEY_LENGTH, inst |-> 0]
    ELSE IF c.enc.keyflag = FALSE
    THEN [ctx |-> [c EXCEPT !.enc = [keyflag |-> TRUE, keybits |-> keybits,
                                     key |-> StoreKey(key, keybits \div 8)]],
          eng |-> eng, ret |-> OK, inst |-> 0]
    ELSE [ctx |-> c, eng |-> ets_aes_setkey_enc(eng, key, keybits), ret |-> OK,
          inst |-> 1]

esp_aes_setkey_dec(c, eng, key, keybits) ==
    IF ~ValidKeybits(keybits)
    THEN [ctx |-> c, eng |-> eng, ret |-> ERR_AES_INVALID_KEY_LENGTH, inst |-> 0]
    ELSE IF c.dec.keyflag = FALSE
    THEN [ctx |-> [c EXCEPT !.dec = [keyflag |-> TRUE, keybits |-> keybits,
                                     key |-> StoreKey(key, keybits \div 8)]],
          eng |-> eng, ret |-> OK, inst |-> 0]
    ELSE [ctx |-> c, eng |-> ets_aes_setkey_dec(eng, key, keybits), ret |-> OK,
          inst |-> 1]

\* an enable that asks for 128 bits when the record holds 0
process_enable_default(c, eng, mode) ==
    IF mode = AES_ENCRYPT
    THEN esp_aes_setkey_enc(c, eng, c.enc.key,
                            IF c.enc.keybits = 0 THEN 128 ELSE c.enc.keybits)
    ELSE esp_aes_setkey_dec(c, eng, c.dec.key,
                            IF c.dec.keybits = 0 THEN 128 ELSE c.dec.keybits)

\* the return value of the inner setter is dropped
esp_aes_process_enable(c, eng, mode) ==
    IF mode = AES_ENCRYPT
    THEN esp_aes_setkey_enc(c, eng, c.enc.key, c.enc.keybits)
    ELSE esp_aes_setkey_dec(c, eng, c.dec.key, c.dec.keybits)

\* esp_aes_encrypt and esp_aes_decrypt are the same call
esp_aes_encrypt(eng, input) == ets_aes_crypt(eng, input)

esp_aes_decrypt(eng, input) == ets_aes_crypt(eng, input)

KeyOf(c, mode) == IF mode = AES_ENCRYPT THEN c.enc ELSE c.dec


(***************************************************************************)
(* State                                                                   *)
(***************************************************************************)
VARIABLES
    ctx,        \* ctx[t]: the AES_CTX owned by thread t
    lock,       \* the thread inside AES_LOCK .. AES_UNLOCK, or NoThread
    refcount,   \* the engine handle's count of live contexts
    engine,     \* power state and installed key schedule of the engine
    pc,         \* pc[t]: where thread t stands in its current call
    frame,      \* frame[t]: arguments, locals and result of t's current call
    live,       \* live[t]: ctx[t] is between esp_aes_init and esp_aes_free
    req,        \* req[d]: the key of the caller's last accepted setKey (ModeSpec)
    trial       \* the calls under comparison (ModeSpec)

vars == <<ctx, lock, refcount, engine, pc, frame, live, req, trial>>

NoKey == [keybits |-> 0, key |-> <<>>]
NoReq == [enc |-> NoKey, dec |-> NoKey]
NoTrial == [phase |-> "none"]

\* the keys the callers use: one per thread, all distinct
Key1 == Ramp(16, 17, 1)
Key2 == Ramp(24, 90, 7)
KeysOf(t) == IF t = "t1" THEN {[keybits |-> 128, key |-> Key1]}
             ELSE {[keybits |-> 192, key |-> Key2]}

\* key lengths the switch rejects
InvalidBits == {0, 100}

BlkA == Ramp(BLOCK, 1, 3)
IvA == Ramp(BLOCK, 200, 11)

\* the buffers handed to esp_aes_crypt_cbc: whole blocks, and two ragged ones
CbcLengths == {BLOCK * k : k \in 0..SpecBlocks} \cup {5, BLOCK + 1}
Data(n) == Ramp(n, 3, 5)

Frame0 ==
    [op |-> "none", mode |-> AES_ENCRYPT, keybits |-> 0, ret |-> "none",
     len0 |-> 0, length |-> 0, pos |-> 0, iv |-> <<>>, input |-> <<>>,
     output |-> <<>>, temp |-> <<>>, ein |-> <<>>, eout |-> <<>>,
     \* the stream modes: the caller's offset, the local n, the counter, the
     \* keystream block, the scratch copy of the IV
     off |-> 0, n |-> 0, nc |-> <<>>, sb |-> <<>>, ov |-> <<>>,
     \* what the call has done so far, kept for the properties
     ctx0 |-> ZeroCtx, st0 |-> <<>>, nLock |-> 0, nInstall |-> 0, nxf |-> 0,
     used |-> EngineReset, edge |-> <<0, 0>>, nEnable |-> 0, nDisable |-> 0,
     installed |-> {}, dirs |-> {}, nUnlocked |-> 0]

Init ==
    /\ ctx = [t \in Threads |-> ZeroCtx]
    /\ lock = NoThread
    /\ refcount = 0
    /\ engine = EngineReset
    /\ pc = [t \in Threads |-> "idle"]
    /\ frame = [t \in Threads |-> Frame0]
    /\ live = [t \in Threads |-> FALSE]
    /\ req = NoReq
    /\ trial = NoTrial

Idle(t) == pc[t] = "idle"
Call(t, f) == frame' = [frame EXCEPT ![t] = f]
Goto(t, l) == pc' = [pc EXCEPT ![t] = l]
\* the call returns r; the caller sees the frame until it takes the result
Return(t, r) ==
    /\ frame' = [frame EXCEPT ![t].ret = r]
    /\ pc' = [pc EXCEPT ![t] = "done"]

Done(t) == pc[t] = "done"

\* back in the caller: the frame of the call is gone
return(t) ==
    /\ Done(t)
    /\ frame' = [frame EXCEPT ![t] = Frame0]
    /\ pc' = [pc EXCEPT ![t] = "idle"]
    /\ UNCHANGED <<ctx, lock, refcount, engine, live, req, trial>>

\* AES_LOCK(): blocks until the lock is free
AES_LOCK(t) == lock = NoThread /\ lock' = t

\* AES_UNLOCK()
AES_UNLOCK(t) == lock = t /\ lock' = NoThread

(***************************************************************************)
(* esp_aes_init                                                            *)
(***************************************************************************)
init_memset(t) ==
    /\ Idle(t) /\ ~live[t]
    /\ ctx' = [ctx EXCEPT ![t] = ZeroCtx]
    /\ Call(t, [Frame0 EXCEPT !.op = "init"])
    /\ Goto(t, "init_lock")
    /\ UNCHANGED <<lock, refcount, engine, live, req, trial>>

init_lock(t) ==
    /\ pc[t] = "init_lock"
    /\ AES_LOCK(t)
    /\ Goto(t, "init_take")
    /\ UNCHANGED <<ctx, refcount, engine, frame, live, req, trial>>

init_take(t) ==
    /\ pc[t] = "init_take"
    /\ refcount' = AES_TAKE(refcount)
    /\ frame' = [frame EXCEPT ![t].edge = <<refcount, refcount'>>]
    /\ Goto(t, "init_enable")
    /\ UNCHANGED <<ctx, lock, engine, live, req, trial>>

\* an esp_aes_init that leaves the engine as it is
init_no_enable(t) ==
    /\ pc[t] = "init_enable"
    /\ Goto(t, "init_unlock")
    /\ UNCHANGED <<ctx, lock, refcount, engine, frame, live, req, trial>>

\* ets_aes_enable(): called whatever the count is
init_enable(t) ==
    /\ pc[t] = "init_enable"
    /\ engine' = ets_aes_enable(engine)
    /\ frame' = [frame EXCEPT ![t].nEnable = @ + 1]
    /\ Goto(t, "init_unlock")
    /\ UNCHANGED <<ctx, lock, refcount, live, req, trial>>

init_unlock(t) ==
    /\ pc[t] = "init_unlock"
    /\ AES_UNLOCK(t)
    /\ live' = [live EXCEPT ![t] = TRUE]
    /\ Return(t, OK)
    /\ UNCHANGED <<ctx, refcount, engine, req, trial>>

(***************************************************************************)
(* esp_aes_free                                                            *)
(***************************************************************************)
\* if ( ctx == NULL ) return;
free_null(t) ==
    /\ Idle(t)
    /\ Call(t, [Frame0 EXCEPT !.op = "free_null"])
    /\ Goto(t, "done")
    /\ UNCHANGED <<ctx, lock, refcount, engine, live, req, trial>>

\* a free that leaves the key records as they are
free_no_bzero(t) ==
    /\ Idle(t) /\ live[t]
    /\ live' = [live EXCEPT ![t] = FALSE]
    /\ Call(t, [Frame0 EXCEPT !.op = "free", !.ctx0 = ctx[t]])
    /\ Goto(t, "free_lock")
    /\ UNCHANGED <<ctx, lock, refcount, engine, req, trial>>

\* bzero( ctx, sizeof( AES_CTX ) )
free_bzero(t) ==
    /\ Idle(t) /\ live[t]
    /\ ctx' = [ctx EXCEPT ![t] = ZeroCtx]
    /\ live' = [live EXCEPT ![t] = FALSE]
    /\ Call(t, [Frame0 EXCEPT !.op = "free", !.ctx0 = ctx[t]])
    /\ Goto(t, "free_lock")
    /\ UNCHANGED <<lock, refcount, engine, req, trial>>

free_lock(t) ==
    /\ pc[t] = "free_lock"
    /\ AES_LOCK(t)
    /\ Goto(t, "free_give")
    /\ UNCHANGED <<ctx, refcount, engine, frame, live, req, trial>>

free_give(t) ==
    /\ pc[t] = "free_give"
    /\ refcount' = AES_GIVE(refcount)
    /\ frame' = [frame EXCEPT ![t].edge = <<refcount, refcount'>>]
    /\ Goto(t, "free_disable")
    /\ UNCHANGED <<ctx, lock, engine, live, req, trial>>

\* a free that powers the engine down whatever the count is
FreeDisablesAlways(sig) == TRUE

\* if (false == AES_IS_USED())
FreeDisables(sig) == AES_IS_USED(sig) = FALSE

free_disable(t) ==
    /\ pc[t] = "free_disable"
    /\ IF FreeDisables(refcount)
       THEN /\ engine' = ets_aes_disable(engine)
            /\ frame' = [frame EXCEPT ![t].nDisable = @ + 1]
       ELSE UNCHANGED <<engine, frame>>
    /\ Goto(t, "free_unlock")
    /\ UNCHANGED <<ctx, lock, refcount, live, req, trial>>

free_unlock(t) ==
    /\ pc[t] = "free_unlock"
    /\ AES_UNLOCK(t)
    /\ Return(t, OK)
    /\ UNCHANGED <<ctx, refcount, engine, live, req, trial>>

\* the schedules a call of a setter put on the engine, and how many of them
\* it put there without holding the lock
Installed(r) == IF r.inst = 1 THEN {Schedule(r.eng)} ELSE {}

Unlocked(t, r) == IF r.inst = 1 /\ lock # t THEN 1 ELSE 0

(***************************************************************************)
(* esp_aes_setkey_enc, esp_aes_setkey_dec called by a thread: no lock is   *)
(* taken, the record or the engine is written in place                     *)
(***************************************************************************)
setkey_enc(t) ==
    /\ Idle(t) /\ live[t]
    /\ \E k \in KeysOf(t), bits \in {128, 192, 256} \cup InvalidBits :
         LET r == esp_aes_setkey_enc(ctx[t], engine, k.key, bits)
         IN  /\ bits \in {k.keybits} \cup InvalidBits
             /\ ctx' = [ctx EXCEPT ![t] = r.ctx]
             /\ engine' = r.eng
             /\ Call(t, [Frame0 EXCEPT !.op = "setkey_enc", !.keybits = bits,
                                       !.mode = AES_ENCRYPT, !.ret = r.ret,
                                       !.ctx0 = ctx[t], !.nInstall = r.inst,
                                       !.installed = Installed(r),
                                       !.nUnlocked = Unlocked(t, r)])
    /\ Goto(t, "done")
    /\ UNCHANGED <<lock, refcount, live, req, trial>>

setkey_dec(t) ==
    /\ Idle(t) /\ live[t]
    /\ \E k \in KeysOf(t), bits \in {128, 192, 256} \cup InvalidBits :
         LET r == esp_aes_setkey_dec(ctx[t], engine, k.key, bits)
         IN  /\ bits \in {k.keybits} \cup InvalidBits
             /\ ctx' = [ctx EXCEPT ![t] = r.ctx]
             /\ engine' = r.eng
             /\ Call(t, [Frame0 EXCEPT !.op = "setkey_dec", !.keybits = bits,
                                       !.mode = AES_DECRYPT, !.ret = r.ret,
                                       !.ctx0 = ctx[t], !.nInstall = r.inst,
                                       !.installed = Installed(r),
                                       !.nUnlocked = Unlocked(t, r)])
    /\ Goto(t, "done")
    /\ UNCHANGED <<lock, refcount, live, req, trial>>

(***************************************************************************)
(* esp_aes_crypt_ecb, called directly or from a mode function              *)
(***************************************************************************)
ecb_call(t) ==
    /\ Idle(t) /\ live[t]
    /\ \E mode \in {AES_ENCRYPT, AES_DECRYPT} :
         Call(t, [Frame0 EXCEPT !.op = "ecb", !.mode = mode, !.ein = BlkA,
                                !.ctx0 = ctx[t]])
    /\ Goto(t, "ecb_lock")
    /\ UNCHANGED <<ctx, lock, refcount, engine, live, req, trial>>

ecb_lock(t) ==
    /\ pc[t] = "ecb_lock"
    /\ AES_LOCK(t)
    /\ frame' = [frame EXCEPT ![t].nLock = @ + 1]
    /\ Goto(t, "ecb_enable")
    /\ UNCHANGED <<ctx, refcount, engine, live, req, trial>>

\* a mode function that hands its own mode on to esp_aes_crypt_ecb
EcbModeOfCaller(f) == f.mode

\* the direction esp_aes_crypt_ecb is called with: the caller's for a direct
\* call and for CBC, AES_ENCRYPT for CFB128, CFB8 and CTR
EcbMode(f) == IF f.op \in {"ecb", "cbc"} THEN f.mode ELSE AES_ENCRYPT

ecb_enable(t) ==
    /\ pc[t] = "ecb_enable"
    /\ LET r == esp_aes_process_enable(ctx[t], engine, EcbMode(frame[t]))
       IN  /\ ctx' = [ctx EXCEPT ![t] = r.ctx]
           /\ engine' = r.eng
           /\ frame' = [frame EXCEPT ![t].nInstall = @ + r.inst,
                                     ![t].installed = @ \cup Installed(r),
                                     ![t].dirs = @ \cup {EcbMode(frame[t])},
                                     ![t].nUnlocked = @ + Unlocked(t, r)]
    /\ Goto(t, "ecb_crypt")
    /\ UNCHANGED <<lock, refcount, live, req, trial>>

\* the buffer the mode functions pass as output of esp_aes_crypt_ecb
EcbStore(f, blk) ==
    CASE f.op \in {"cfb128", "cfb8"} -> [f EXCEPT !.eout = blk, !.iv = blk]
      [] f.op = "ctr" -> [f EXCEPT !.eout = blk, !.sb = blk]
      [] OTHER -> [f EXCEPT !.eout = blk]

ecb_crypt(t) ==
    /\ pc[t] = "ecb_crypt"
    /\ frame' = [frame EXCEPT
          ![t] = [EcbStore(frame[t],
                           IF EcbMode(frame[t]) = AES_ENCRYPT
                           THEN esp_aes_encrypt(engine, frame[t].ein)
                           ELSE esp_aes_decrypt(engine, frame[t].ein))
                  EXCEPT !.nxf = @ + 1, !.used = engine]]
    /\ Goto(t, "ecb_unlock")
    /\ UNCHANGED <<ctx, lock, refcount, engine, live, req, trial>>

\* an esp_aes_crypt_ecb that returns without AES_UNLOCK
ecb_keeps_lock(t) ==
    /\ pc[t] = "ecb_unlock"
    /\ IF frame[t].op = "ecb"
       THEN /\ frame' = [frame EXCEPT ![t].output = frame[t].eout, ![t].ret = OK]
            /\ Goto(t, "done")
       ELSE /\ Goto(t, frame[t].op \o "_post")
            /\ UNCHANGED frame
    /\ UNCHANGED <<ctx, lock, refcount, engine, live, req, trial>>

ecb_unlock(t) ==
    /\ pc[t] = "ecb_unlock"
    /\ AES_UNLOCK(t)
    /\ IF frame[t].op = "ecb"
       THEN /\ frame' = [frame EXCEPT ![t].output = frame[t].eout, ![t].ret = OK]
            /\ Goto(t, "done")
       ELSE /\ Goto(t, frame[t].op \o "_post")
            /\ UNCHANGED frame
    /\ UNCHANGED <<ctx, refcount, engine, live, req, trial>>

(***************************************************************************)
(* esp_aes_crypt_cbc                                                       *)
(***************************************************************************)
\* a byte of a buffer; a read past its end gives 0
Rd(buf, i) == IF i \in 1..Len(buf) THEN buf[i] ELSE 0

\* the 16 bytes of buf after the first pos
BlockAt(buf, pos) == [i \in 1..BLOCK |-> Rd(buf, pos + i)]

\* buf with the 16 bytes after the first pos replaced by blk
PutBlock(buf, pos, blk) ==
    [i \in 1..Len(buf) |-> IF i > pos /\ i <= pos + BLOCK THEN blk[i - pos] ELSE buf[i]]

\* a length check that lets every length through
CbcLengthAny(length) == TRUE

\* if ( length % 16 ) return ERR_AES_INVALID_INPUT_LENGTH
CbcLengthOK(length) == length % BLOCK = 0

\* what one pass of the loop hands to esp_aes_crypt_ecb
CbcEcbInput(mode, iv, blk) ==
    IF mode = AES_DECRYPT THEN blk ELSE XorBlock(blk, iv)

\* the output block of one pass, from what esp_aes_crypt_ecb returned
CbcOutput(mode, iv, eout) ==
    IF mode = AES_DECRYPT THEN XorBlock(eout, iv) ELSE eout

\* the IV after one pass: the ciphertext block of the pass
CbcNextIv(mode, iv, blk, eout) ==
    IF mode = AES_DECRYPT THEN blk ELSE eout

cbc_call(t) ==
    /\ t \in ModeCallers
    /\ Idle(t) /\ live[t]
    /\ \E mode \in {AES_ENCRYPT, AES_DECRYPT}, length \in CbcLengths :
         /\ Call(t, [Frame0 EXCEPT
                !.op = "cbc", !.mode = mode, !.len0 = length, !.length = length,
                !.iv = IvA, !.input = Data(length), !.output = Fill(length, 0),
                !.ctx0 = ctx[t],
                !.ret = IF CbcLengthOK(length) THEN "none"
                        ELSE ERR_AES_INVALID_INPUT_LENGTH])
         /\ Goto(t, IF CbcLengthOK(length) THEN "cbc_loop" ELSE "done")
    /\ UNCHANGED <<ctx, lock, refcount, engine, live, req, trial>>

cbc_loop(t) ==
    /\ pc[t] = "cbc_loop"
    /\ LET f == frame[t]
           blk == BlockAt(f.input, f.pos)
       IN  IF f.length > 0
           THEN /\ frame' = [frame EXCEPT
                      ![t].temp = IF f.mode = AES_DECRYPT THEN blk ELSE f.temp,
                      ![t].output = IF f.mode = AES_DECRYPT THEN f.output
                                    ELSE PutBlock(f.output, f.pos, XorBlock(blk, f.iv)),
                      ![t].ein = CbcEcbInput(f.mode, f.iv, blk)]
                /\ Goto(t, "ecb_lock")
           ELSE Return(t, OK)
    /\ UNCHANGED <<ctx, lock, refcount, engine, live, req, trial>>

cbc_post(t) ==
    /\ pc[t] = "cbc_post"
    /\ LET f == frame[t]
           blk == BlockAt(f.input, f.pos)
       IN  frame' = [frame EXCEPT
              ![t].output = PutBlock(f.output, f.pos, CbcOutput(f.mode, f.iv, f.eout)),
              ![t].iv = CbcNextIv(f.mode, f.iv, blk, f.eout),
              ![t].pos = f.pos + BLOCK,
              \* length is a positive multiple of 16 here: no wrap of the size_t
              ![t].length = f.length - BLOCK]
    /\ Goto(t, "cbc_loop")
    /\ UNCHANGED <<ctx, lock, refcount, engine, live, req, trial>>

(***************************************************************************)
(* The stream modes: what one pass of their loops does to a byte           *)
(***************************************************************************)
\* a refresh made for every byte
NeedsRefreshAlways(n) == TRUE

\* if ( n == 0 ): the keystream block is refreshed
NeedsRefresh(n) == n = 0

\* n = ( n + 1 ) & 0x0F
OffNext(n) == (n + 1) % BLOCK

\* a feedback that is the output byte in both modes
Cfb128FeedbackOutput(mode, ch, o) == o

\* iv[n] after a byte of CFB128: the input byte when decrypting, the output
\* byte when encrypting
Cfb128Feedback(mode, ch, o) == IF mode = AES_DECRYPT THEN ch ELSE o

\* an ov[16] that is the output byte in both modes
Cfb8FeedbackOutput(mode, ch, o) == o

\* ov[16]: the input byte when decrypting, the output byte when encrypting
Cfb8Feedback(mode, ch, o) == IF mode = AES_DECRYPT THEN ch ELSE o

\* memcpy( iv, ov + 1, 16 )
Cfb8Shift(ov) == SubSeq(ov, 2, BLOCK + 1)

\* an increment of the last byte that carries nowhere
CtrIncrementNoCarry(nc, i) == [nc EXCEPT ![i] = (@ + 1) % 256]

\* for ( i = 16; i > 0; i-- ) if ( ++nonce_counter[i - 1] != 0 ) break;
RECURSIVE CtrIncrement(_, _)
CtrIncrement(nc, i) ==
    IF i = 0 THEN nc
    ELSE LET v == (nc[i] + 1) % 256
         IN  IF v # 0 THEN [nc EXCEPT ![i] = v]
             ELSE CtrIncrement([nc EXCEPT ![i] = v], i - 1)

\* an output byte that is the sum of input and keystream byte
CtrByteSum(c, k) == (c + k) % 256

\* (unsigned char)( c ^ stream_block[n] )
CtrByte(c, k) == Xor(c, k)

(***************************************************************************)
(* esp_aes_crypt_cfb128, esp_aes_crypt_cfb8, esp_aes_crypt_ctr step by     *)
(* step.  st is the chaining state the caller passes: iv and offset, iv,   *)
(* or nonce counter, stream block and offset.                              *)
(***************************************************************************)
StreamFrame(kind, mode, st, length, c) ==
    [Frame0 EXCEPT
        !.op = kind, !.mode = mode, !.len0 = length, !.length = length,
        !.st0 = st, !.ctx0 = c, !.input = Data(length),
        !.iv = IF kind = "ctr" THEN <<>> ELSE st.iv,
        !.nc = IF kind = "ctr" THEN st.nc ELSE <<>>,
        !.sb = IF kind = "ctr" THEN st.sb ELSE <<>>,
        !.off = IF kind = "cfb8" THEN 0 ELSE st.off,
        \* size_t n = *iv_off;  size_t n = *nc_off;
        !.n = IF kind = "cfb8" THEN 0 ELSE st.off]

cfb128_begin(t, starts, lengths) ==
    /\ Idle(t) /\ live[t]
    /\ \E mode \in {AES_ENCRYPT, AES_DECRYPT}, st \in starts, length \in lengths :
         Call(t, StreamFrame("cfb128", mode, st, length, ctx[t]))
    /\ Goto(t, "cfb128_loop")
    /\ UNCHANGED <<ctx, lock, refcount, engine, live, req, trial>>

\* while ( length-- ) { if ( n == 0 ) esp_aes_crypt_ecb( ctx, AES_ENCRYPT, iv, iv ); ...
\* and after the loop  *iv_off = n; return 0
cfb128_loop(t) ==
    /\ pc[t] = "cfb128_loop"
    /\ LET f == frame[t]
       IN  IF f.length > 0
           THEN /\ frame' = [frame EXCEPT ![t].length = f.length - 1,
                                          ![t].ein = IF NeedsRefresh(f.n) THEN f.iv
                                                     ELSE f.ein]
                /\ Goto(t, IF NeedsRefresh(f.n) THEN "ecb_lock" ELSE "cfb128_post")
           ELSE /\ frame' = [frame EXCEPT ![t].off = f.n, ![t].ret = OK]
                /\ Goto(t, "done")
    /\ UNCHANGED <<ctx, lock, refcount, engine, live, req, trial>>

\* the byte of the pass: output, feedback into iv[n], next n
cfb128_post(t) ==
    /\ pc[t] = "cfb128_post"
    /\ LET f == frame[t]
           ch == f.input[f.pos + 1]
           o == Xor(ch, f.iv[f.n + 1])
       IN  frame' = [frame EXCEPT
              ![t].output = Append(f.output, o),
              ![t].iv = [f.iv EXCEPT ![f.n + 1] = Cfb128Feedback(f.mode, ch, o)],
              ![t].n = OffNext(f.n),
              ![t].pos = f.pos + 1]
    /\ Goto(t, "cfb128_loop")
    /\ UNCHANGED <<ctx, lock, refcount, engine, live, req, trial>>

cfb8_begin(t, starts, lengths) ==
    /\ Idle(t) /\ live[t]
    /\ \E mode \in {AES_ENCRYPT, AES_DECRYPT}, st \in starts, length \in lengths :
         Call(t, StreamFrame("cfb8", mode, st, length, ctx[t]))
    /\ Goto(t, "cfb8_loop")
    /\ UNCHANGED <<ctx, lock, refcount, engine, live, req, trial>>

\* while ( length-- ) { memcpy( ov, iv, 16 ); esp_aes_crypt_ecb( ctx, AES_ENCRYPT, iv, iv ); ...
cfb8_loop(t) ==
    /\ pc[t] = "cfb8_loop"
    /\ LET f == frame[t]
       IN  IF f.length > 0
           THEN /\ frame' = [frame EXCEPT ![t].length = f.length - 1,
                                          ![t].ov = Append(f.iv, Rd(f.ov, BLOCK + 1)),
                                          ![t].ein = f.iv]
                /\ Goto(t, "ecb_lock")
           ELSE Return(t, OK)
    /\ UNCHANGED <<ctx, lock, refcount, engine, live, req, trial>>

\* the byte of the pass: ov[16], the output byte, the shifted IV
cfb8_post(t) ==
    /\ pc[t] = "cfb8_post"
    /\ LET f == frame[t]
           ch == f.input[f.pos + 1]
           o == Xor(f.iv[1], ch)
           ov == [f.ov EXCEPT ![BLOCK + 1] = Cfb8Feedback(f.mode, ch, o)]
       IN  frame' = [frame EXCEPT
              ![t].output = Append(f.output, o),
              ![t].ov = ov,
              ![t].iv = Cfb8Shift(ov),
              ![t].pos = f.pos + 1]
    /\ Goto(t, "cfb8_loop")
    /\ UNCHANGED <<ctx, lock, refcount, engine, live, req, trial>>

ctr_begin(t, starts, lengths) ==
    /\ Idle(t) /\ live[t]
    /\ \E st \in starts, length \in lengths :
         Call(t, StreamFrame("ctr", AES_ENCRYPT, st, length, ctx[t]))
    /\ Goto(t, "ctr_loop")
    /\ UNCHANGED <<ctx, lock, refcount, engine, live, req, trial>>

\* while ( length-- ) { if ( n == 0 ) esp_aes_crypt_ecb( ctx, AES_ENCRYPT,
\* nonce_counter, stream_block ); ...   and after the loop  *nc_off = n; return 0
ctr_loop(t) ==
    /\ pc[t] = "ctr_loop"
    /\ LET f == frame[t]
       IN  IF f.length > 0
           THEN /\ frame' = [frame EXCEPT ![t].length = f.length - 1,
                                          ![t].ein = IF NeedsRefresh(f.n) THEN f.nc
                                                     ELSE f.ein]
                /\ Goto(t, IF NeedsRefresh(f.n) THEN "ecb_lock" ELSE "ctr_post")
           ELSE /\ frame' = [frame EXCEPT ![t].off = f.n, ![t].ret = OK]
                /\ Goto(t, "done")
    /\ UNCHANGED <<ctx, lock, refcount, engine, live, req, trial>>

\* the rest of the pass: the increment inside  if ( n == 0 ), then the byte
ctr_post(t) ==
    /\ pc[t] = "ctr_post"
    /\ LET f == frame[t]
           o == CtrByte(f.input[f.pos + 1], f.sb[f.n + 1])
       IN  frame' = [frame EXCEPT
              ![t].nc = IF NeedsRefresh(f.n) THEN CtrIncrement(f.nc, BLOCK) ELSE f.nc,
              ![t].output = Append(f.output, o),
              ![t].n = OffNext(f.n),
              ![t].pos = f.pos + 1]
    /\ Goto(t, "ctr_loop")
    /\ UNCHANGED <<ctx, lock, refcount, engine, live, req, trial>>

\* the stream calls of the concurrent callers
SpecOffsets == {0}

SpecStarts(kind) ==
    CASE kind = "cfb128" -> {[iv |-> IvA, off |-> o] : o \in SpecOffsets}
      [] kind = "cfb8" -> {[iv |-> IvA]}
      [] OTHER -> {[nc |-> Fill(BLOCK, 255), sb |-> IvA, off |-> o] : o \in SpecOffsets}

cfb128_call(t) == t \in ModeCallers /\ cfb128_begin(t, SpecStarts("cfb128"), 0..SpecStream)

cfb8_call(t) == t \in ModeCallers /\ cfb8_begin(t, SpecStarts("cfb8"), 0..SpecStream)

ctr_call(t) == t \in ModeCallers /\ ctr_begin(t, SpecStarts("ctr"), 0..SpecStream)

(***************************************************************************)
(* Whole calls, as one caller sees them                                    *)
(***************************************************************************)
esp_aes_crypt_ecb(c, eng, mode, input) ==
    LET r == esp_aes_process_enable(c, eng, mode)
    IN  [ctx |-> r.ctx, eng |-> r.eng, used |-> r.eng, ret |-> OK,
         output |-> IF mode = AES_ENCRYPT THEN esp_aes_encrypt(r.eng, input)
                    ELSE esp_aes_decrypt(r.eng, input)]

RECURSIVE CbcLoop(_, _, _, _, _, _, _, _)
CbcLoop(c, eng, mode, length, iv, input, pos, output) ==
    IF length > 0
    THEN LET blk == BlockAt(input, pos)
             e == esp_aes_crypt_ecb(c, eng, mode, CbcEcbInput(mode, iv, blk))
         IN  CbcLoop(e.ctx, e.eng, mode, length - BLOCK,
                     CbcNextIv(mode, iv, blk, e.output), input, pos + BLOCK,
                     output \o CbcOutput(mode, iv, e.output))
    ELSE [ctx |-> c, eng |-> eng, ret |-> OK, output |-> output,
          st |-> [iv |-> iv]]

\* st: the caller's chaining state; output: the bytes written
esp_aes_crypt_cbc(c, eng, mode, st, input) ==
    IF ~CbcLengthOK(Len(input))
    THEN [ctx |-> c, eng |-> eng, ret |-> ERR_AES_INVALID_INPUT_LENGTH,
          output |-> <<>>, st |-> [iv |-> st.iv]]
    ELSE CbcLoop(c, eng, mode, Len(input), st.iv, input, 0, <<>>)

\* the refresh of CFB128 and CTR: one esp_aes_crypt_ecb when n == 0
Refresh(c, eng, n, blk, old) ==
    IF NeedsRefresh(n) THEN esp_aes_crypt_ecb(c, eng, AES_ENCRYPT, blk)
    ELSE [ctx |-> c, eng |-> eng, used |-> eng, ret |-> OK, output |-> old]

RECURSIVE Cfb128Loop(_, _, _, _, _, _, _)
Cfb128Loop(c, eng, mode, n, iv, input, output) ==
    IF input = <<>>
    THEN [ctx |-> c, eng |-> eng, ret |-> OK, output |-> output,
          st |-> [iv |-> iv, off |-> n]]
    ELSE LET e == Refresh(c, eng, n, iv, iv)
             ch == Head(input)
             o == Xor(ch, e.output[n + 1])
             fb == Cfb128Feedback(mode, ch, o)
         IN  Cfb128Loop(e.ctx, e.eng, mode, OffNext(n),
                        [e.output EXCEPT ![n + 1] = fb], Tail(input),
                        Append(output, o))

\* a CFB128 that leaves out  *iv_off = n
cfb128_no_writeback(c, eng, mode, st, input) ==
    [Cfb128Loop(c, eng, mode, st.off, st.iv, input, <<>>) EXCEPT !.st.off = st.off]

esp_aes_crypt_cfb128(c, eng, mode, st, input) ==
    Cfb128Loop(c, eng, mode, st.off, st.iv, input, <<>>)

RECURSIVE Cfb8Loop(_, _, _, _, _, _)
Cfb8Loop(c, eng, mode, iv, input, output) ==
    IF input = <<>>
    THEN [ctx |-> c, eng |-> eng, ret |-> OK, output |-> output,
          st |-> [iv |-> iv]]
    ELSE LET e == esp_aes_crypt_ecb(c, eng, AES_ENCRYPT, iv)
             ch == Head(input)
             o == Xor(e.output[1], ch)
             ov == Append(iv, Cfb8Feedback(mode, ch, o))
         IN  Cfb8Loop(e.ctx, e.eng, mode, Cfb8Shift(ov), Tail(input),
                      Append(output, o))

esp_aes_crypt_cfb8(c, eng, mode, st, input) ==
    Cfb8Loop(c, eng, mode, st.iv, input, <<>>)

RECURSIVE CtrLoop(_, _, _, _, _, _, _)
CtrLoop(c, eng, n, nc, sb, input, output) ==
    IF input = <<>>
    THEN [ctx |-> c, eng |-> eng, ret |-> OK, output |-> output,
          st |-> [nc |-> nc, sb |-> sb, off |-> n]]
    ELSE LET e == Refresh(c, eng, n, nc, sb)
             nc1 == IF NeedsRefresh(n) THEN CtrIncrement(nc, BLOCK) ELSE nc
             o == CtrByte(Head(input), e.output[n + 1])
         IN  CtrLoop(e.ctx, e.eng, OffNext(n), nc1, e.output, Tail(input),
                     Append(output, o))

esp_aes_crypt_ctr(c, eng, st, input) ==
    CtrLoop(c, eng, st.off, st.nc, st.sb, input, <<>>)

ThreadStep(t) ==
    \/ init_memset(t) \/ init_lock(t) \/ init_take(t) \/ init_enable(t)
    \/ init_unlock(t)
    \/ free_null(t) \/ free_bzero(t) \/ free_lock(t) \/ free_give(t) \/ free_disable(t)
    \/ free_unlock(t)
    \/ setkey_enc(t) \/ setkey_dec(t)
    \/ ecb_call(t) \/ ecb_lock(t) \/ ecb_enable(t) \/ ecb_crypt(t) \/ ecb_unlock(t)
    \/ cbc_call(t) \/ cbc_loop(t) \/ cbc_post(t)
    \/ cfb128_call(t) \/ cfb128_loop(t) \/ cfb128_post(t)
    \/ cfb8_call(t) \/ cfb8_loop(t) \/ cfb8_post(t)
    \/ ctr_call(t) \/ ctr_loop(t) \/ ctr_post(t)
    \/ return(t)

Next == \E t \in Threads : ThreadStep(t)

Spec == Init /\ [][Next]_vars

(***************************************************************************)
(* FairSpec: the threads call esp_aes_init, esp_aes_free and the block and *)
(* mode functions, under a scheduler that lets every thread inside a call  *)
(* run and with a lock that is eventually granted to each waiter.  No      *)
(* thread is made to start a call.  The setters take no lock and make no   *)
(* call that does, and no branch of the other functions that leads to the  *)
(* lock depends on a key record: the setters are left out.                 *)
(***************************************************************************)
LiveStep(t) ==
    \/ init_memset(t) \/ init_lock(t) \/ init_take(t) \/ init_enable(t)
    \/ init_unlock(t)
    \/ free_null(t) \/ free_bzero(t) \/ free_lock(t) \/ free_give(t)
    \/ free_disable(t) \/ free_unlock(t)
    \/ ecb_call(t) \/ ecb_lock(t) \/ ecb_enable(t) \/ ecb_crypt(t) \/ ecb_unlock(t)
    \/ cbc_call(t) \/ cbc_loop(t) \/ cbc_post(t)
    \/ cfb128_call(t) \/ cfb128_loop(t) \/ cfb128_post(t)
    \/ cfb8_call(t) \/ cfb8_loop(t) \/ cfb8_post(t)
    \/ ctr_call(t) \/ ctr_loop(t) \/ ctr_post(t)
    \/ return(t)

LiveNext == \E t \in Threads : LiveStep(t)

InCall(t) == pc[t] \notin {"idle", "done"}

\* the steps of a call in progress
Running(t) == InCall(t) /\ LiveStep(t)

\* AES_LOCK() returns
Acquire(t) == init_lock(t) \/ free_lock(t) \/ ecb_lock(t)

FairSpec ==
    /\ Init /\ [][LiveNext]_vars
    /\ \A t \in Threads : WF_vars(Running(t)) /\ SF_vars(Acquire(t))


(***************************************************************************)
(* ModeSpec: one caller with a live context.  It sets keys, and it runs    *)
(* trials: a buffer processed in one call and again in two calls, or a     *)
(* buffer encrypted and the result decrypted.  Every call of a trial is a  *)
(* call on the caller's context and on the engine.                         *)
(***************************************************************************)
Caller == "t1"

SeqKeys == {[keybits |-> 128, key |-> Key1], [keybits |-> 192, key |-> Key2]}

StartOffsets == {0, BLOCK - 2, BLOCK - 1}
IvB == Fill(BLOCK, 0)
\* counters whose increment carries: into byte 14, and through every byte
NonceA == [i \in 1..BLOCK |-> IF i = BLOCK THEN 255 ELSE i]
NonceB == Fill(BLOCK, 255)
Plain(n) == Ramp(n, 7, 13)

Kinds == {"cbc", "cfb128", "cfb8", "ctr"}

\* the chaining states a caller starts a stream with
StartStates(kind) ==
    CASE kind = "cbc" -> {[iv |-> iv] : iv \in {IvA, IvB}}
      [] kind = "cfb128" -> {[iv |-> IvA, off |-> o] : o \in StartOffsets}
      [] kind = "cfb8" -> {[iv |-> IvA]}
      [] kind = "ctr" -> {[nc |-> nc, sb |-> IvA, off |-> o] :
                            nc \in {NonceA, NonceB}, o \in StartOffsets}
      [] OTHER -> {[iv |-> IvA]}

TrialLengths(kind) ==
    IF kind = "cbc" THEN {BLOCK * k : k \in 0..MaxBlocks}
    ELSE IF kind = "ecb" THEN {BLOCK}
    ELSE 0..MaxStream

\* where a buffer of n bytes may be cut in two
Cuts(kind, n) ==
    IF kind = "cbc" THEN {BLOCK * k : k \in 0..(n \div BLOCK)} ELSE 0..n

\* one call of a mode function, as the caller sees it
RunMode(kind, c, eng, mode, st, input) ==
    CASE kind = "cbc" -> esp_aes_crypt_cbc(c, eng, mode, st, input)
      [] kind = "cfb128" -> esp_aes_crypt_cfb128(c, eng, mode, st, input)
      [] kind = "cfb8" -> esp_aes_crypt_cfb8(c, eng, mode, st, input)
      [] kind = "ctr" -> esp_aes_crypt_ctr(c, eng, st, input)
      [] OTHER -> LET e == esp_aes_crypt_ecb(c, eng, mode, input)
                  IN  [ctx |-> e.ctx, eng |-> e.eng, ret |-> e.ret,
                       output |-> e.output, st |-> st]

\* what the caller holds after a call
Res(r) == [ret |-> r.ret, output |-> r.output, st |-> r.st]
NoRes == [ret |-> "none", output |-> <<>>, st |-> <<>>]

ModeInit ==
    /\ ctx = [t \in Threads |-> ZeroCtx]
    /\ lock = NoThread
    /\ refcount = 1
    /\ engine = ets_aes_enable(EngineReset)
    /\ pc = [t \in Threads |-> "idle"]
    /\ frame = [t \in Threads |-> Frame0]
    /\ live = [t \in Threads |-> t = Caller]
    /\ req = NoReq
    /\ trial = NoTrial

Apply(r) ==
    /\ ctx' = [ctx EXCEPT ![Caller] = r.ctx]
    /\ engine' = r.eng

seq_setkey_enc ==
    /\ trial.phase = "none"
    /\ \E k \in SeqKeys, bits \in {128, 192, 256} \cup InvalidBits :
         LET r == esp_aes_setkey_enc(ctx[Caller], engine, k.key, bits)
         IN  /\ bits \in {k.keybits} \cup InvalidBits
             /\ Apply(r)
             /\ req' = IF r.ret = OK THEN [req EXCEPT !.enc = k] ELSE req
    /\ UNCHANGED <<lock, refcount, pc, frame, live, trial>>

seq_setkey_dec ==
    /\ trial.phase = "none"
    /\ \E k \in SeqKeys, bits \in {128, 192, 256} \cup InvalidBits :
         LET r == esp_aes_setkey_dec(ctx[Caller], engine, k.key, bits)
         IN  /\ bits \in {k.keybits} \cup InvalidBits
             /\ Apply(r)
             /\ req' = IF r.ret = OK THEN [req EXCEPT !.dec = k] ELSE req
    /\ UNCHANGED <<lock, refcount, pc, frame, live, trial>>

\* the caller picks the buffers of a trial
trial_begin ==
    /\ trial.phase = "none"
    /\ \E test \in {"split", "roundtrip"}, kind \in Kinds \cup {"ecb"},
          mode \in {AES_ENCRYPT, AES_DECRYPT} :
         \E st \in StartStates(kind), n \in TrialLengths(kind) :
           \E a \in Cuts(kind, n) :
             /\ test = "split" => kind \in Kinds
             /\ test = "roundtrip" => (a = 0 /\ mode = AES_ENCRYPT)
             /\ kind = "ctr" => mode = AES_ENCRYPT
             /\ trial' = [phase |-> "ready", test |-> test, kind |-> kind,
                          mode |-> mode, st0 |-> st,
                          input |-> IF kind = "ecb" THEN BlkA ELSE Plain(n),
                          a |-> a, r1 |-> NoRes, r2 |-> NoRes, r3 |-> NoRes,
                          used |-> EngineReset]
    /\ UNCHANGED <<ctx, lock, refcount, engine, pc, frame, live, req>>

\* split trial: the whole buffer in one call
call_whole ==
    /\ trial.phase = "ready" /\ trial.test = "split"
    /\ LET r == RunMode(trial.kind, ctx[Caller], engine, trial.mode, trial.st0,
                        trial.input)
       IN  /\ Apply(r)
           /\ trial' = [trial EXCEPT !.phase = "whole", !.r1 = Res(r)]
    /\ UNCHANGED <<lock, refcount, pc, frame, live, req>>

\* split trial: the first a bytes, from a copy of the same chaining state
call_first ==
    /\ trial.phase = "whole"
    /\ LET r == RunMode(trial.kind, ctx[Caller], engine, trial.mode, trial.st0,
                        SubSeq(trial.input, 1, trial.a))
       IN  /\ Apply(r)
           /\ trial' = [trial EXCEPT !.phase = "first", !.r2 = Res(r)]
    /\ UNCHANGED <<lock, refcount, pc, frame, live, req>>

\* split trial: the rest, from the chaining state the first call left
call_second ==
    /\ trial.phase = "first"
    /\ LET r == RunMode(trial.kind, ctx[Caller], engine, trial.mode, trial.r2.st,
                        SubSeq(trial.input, trial.a + 1, Len(trial.input)))
       IN  /\ Apply(r)
           /\ trial' = [trial EXCEPT !.phase = "second", !.r3 = Res(r)]
    /\ UNCHANGED <<lock, refcount, pc, frame, live, req>>

\* round trip: encrypt the buffer
call_encrypt ==
    /\ trial.phase = "ready" /\ trial.test = "roundtrip"
    /\ LET r == RunMode(trial.kind, ctx[Caller], engine, AES_ENCRYPT, trial.st0,
                        trial.input)
       IN  /\ Apply(r)
           /\ trial' = [trial EXCEPT !.phase = "encrypted", !.r1 = Res(r),
                                     !.used = r.eng]
    /\ UNCHANGED <<lock, refcount, pc, frame, live, req>>

\* round trip: decrypt what the first call wrote, from a copy of the same
\* chaining state
call_decrypt ==
    /\ trial.phase = "encrypted"
    /\ LET r == RunMode(trial.kind, ctx[Caller], engine, AES_DECRYPT, trial.st0,
                        trial.r1.output)
       IN  /\ Apply(r)
           /\ trial' = [trial EXCEPT !.phase = "decrypted", !.r2 = Res(r)]
    /\ UNCHANGED <<lock, refcount, pc, frame, live, req>>

trial_end ==
    /\ trial.phase \in {"second", "decrypted"}
    /\ trial' = NoTrial
    /\ UNCHANGED <<ctx, lock, refcount, engine, pc, frame, live, req>>

ModeNext ==
    \/ seq_setkey_enc \/ seq_setkey_dec
    \/ trial_begin \/ call_whole \/ call_first \/ call_second
    \/ call_encrypt \/ call_decrypt \/ trial_end

ModeSpec == ModeInit /\ [][ModeNext]_vars

(***************************************************************************)
(* StreamSpec: one caller with a live context sets keys and calls the      *)
(* stream modes, which run step by step.  Buffers of 0..MaxStream bytes    *)
(* and one buffer that runs over a block boundary twice.                   *)
(***************************************************************************)
StreamLengths == (0..MaxStream) \cup {BLOCK + 1}

stream_cfb128 == cfb128_begin(Caller, StartStates("cfb128"), StreamLengths)

stream_cfb8 == cfb8_begin(Caller, StartStates("cfb8"), StreamLengths)

stream_ctr == ctr_begin(Caller, StartStates("ctr"), StreamLengths)

StreamNext ==
    \/ setkey_enc(Caller) \/ setkey_dec(Caller)
    \/ stream_cfb128 \/ cfb128_loop(Caller) \/ cfb128_post(Caller)
    \/ stream_cfb8 \/ cfb8_loop(Caller) \/ cfb8_post(Caller)
    \/ stream_ctr \/ ctr_loop(Caller) \/ ctr_post(Caller)
    \/ ecb_lock(Caller) \/ ecb_enable(Caller) \/ ecb_crypt(Caller)
    \/ ecb_unlock(Caller)
    \/ return(Caller)

StreamSpec == ModeInit /\ [][StreamNext]_vars


(***************************************************************************)
(* Properties                                                              *)
(***************************************************************************)
\* the key schedule a key record asks for
Wanted(rec, mode) ==
    [dir |-> mode, keybit |-> rec.keybits, key |-> SubSeq(rec.key, 1, rec.keybits \div 8)]

IsSet(c, mode) == KeyOf(c, mode).keyflag

\* the failure a block operation on an unset key is to return
ERR_AES_KEY_NOT_SET == "KeyNotSet"

\* C1 (Spec): a block transform made by esp_aes_crypt_ecb for a context whose
\* key for the requested direction is set runs with that context's recorded
\* key, in that direction, installed on the engine.
C1_OwnKeyAtTransform ==
    \A t \in Threads :
        (pc[t] = "ecb_unlock" /\ IsSet(ctx[t], EcbMode(frame[t])))
        => Schedule(frame[t].used) = Wanted(KeyOf(ctx[t], EcbMode(frame[t])),
                                            EcbMode(frame[t]))

\* C2 (Spec): esp_aes_crypt_ecb and esp_aes_crypt_cbc, called for a direction
\* whose key was never set, return KeyNotSet and transform no block.
C2_KeyNotSetSurfaced ==
    \A t \in Threads :
        (/\ Done(t)
         /\ frame[t].op \in {"ecb", "cbc"}
         /\ CbcLengthOK(frame[t].len0)
         /\ ~IsSet(frame[t].ctx0, frame[t].mode))
        => (frame[t].ret = ERR_AES_KEY_NOT_SET /\ frame[t].nxf = 0)

\* C3 (ModeSpec): after accepted setKey calls for a direction, the key record
\* of that direction holds the bits and bytes of the last call, and a block
\* operation in that direction runs under that key.
C3_LastSetKeyWins ==
    /\ req.enc # NoKey => Wanted(ctx[Caller].enc, AES_ENCRYPT) =
                            [dir |-> AES_ENCRYPT, keybit |-> req.enc.keybits,
                             key |-> req.enc.key]
    /\ req.dec # NoKey => Wanted(ctx[Caller].dec, AES_DECRYPT) =
                            [dir |-> AES_DECRYPT, keybit |-> req.dec.keybits,
                             key |-> req.dec.key]
    /\ (trial.phase = "encrypted" /\ trial.kind = "ecb" /\ req.enc # NoKey)
       => Schedule(trial.used) = [dir |-> AES_ENCRYPT, keybit |-> req.enc.keybits,
                                  key |-> req.enc.key]

C5_EnabledIffUsed == lock = NoThread => (engine.enabled <=> refcount > 0)

\* one context freed while the other is still live, lock free
C5_Witness ==
    /\ lock = NoThread /\ refcount = 1 /\ engine.enabled
    /\ \E t \in Threads : Done(t) /\ frame[t].op = "free"

\* C6 (Spec): a key setter called with keybits outside {128,192,256} returns
\* ERR_AES_INVALID_KEY_LENGTH, leaves the context as it was and installs
\* nothing on the engine.
C6_InvalidKeyLength ==
    \A t \in Threads :
        (/\ Done(t)
         /\ frame[t].op \in {"setkey_enc", "setkey_dec"}
         /\ frame[t].keybits \notin {128, 192, 256})
        => /\ frame[t].ret = ERR_AES_INVALID_KEY_LENGTH
           /\ ctx[t] = frame[t].ctx0
           /\ frame[t].nInstall = 0

\* a rejected setter on a context whose key for that direction is set
C6_Witness ==
    \E t \in Threads :
        /\ Done(t) /\ frame[t].op = "setkey_enc" /\ frame[t].keybits = 100
        /\ ctx[t].enc.keyflag
        /\ frame[t].ret = ERR_AES_INVALID_KEY_LENGTH

\* C7 (Spec): esp_aes_crypt_cbc with a length that is no multiple of 16
\* returns ERR_AES_INVALID_INPUT_LENGTH at once: no output byte written, the
\* IV as passed, the lock never taken, no key installed, no block transformed.
C7_CbcRaggedLength ==
    \A t \in Threads :
        (frame[t].op = "cbc" /\ frame[t].len0 % BLOCK # 0)
        => /\ Done(t)
           /\ frame[t].ret = ERR_AES_INVALID_INPUT_LENGTH
           /\ frame[t].output = Fill(frame[t].len0, 0)
           /\ frame[t].iv = IvA
           /\ frame[t].nLock = 0 /\ frame[t].nInstall = 0 /\ frame[t].nxf = 0
           /\ ctx[t] = frame[t].ctx0

\* a rejected call with more than a block of input, on a context with its
\* key set, in either direction
C7_Witness ==
    \E t \in Threads :
        /\ Done(t) /\ frame[t].op = "cbc" /\ frame[t].len0 = BLOCK + 1
        /\ frame[t].mode = AES_DECRYPT /\ ctx[t].dec.keyflag
        /\ frame[t].ret = ERR_AES_INVALID_INPUT_LENGTH

\* C8 (ModeSpec): a buffer processed by two consecutive calls, the second
\* given the chaining state the first left, yields the output bytes and the
\* final chaining state of one call on the whole buffer.
C8_SplitEqualsWhole ==
    trial.phase = "second"
    => /\ trial.r2.output \o trial.r3.output = trial.r1.output
       /\ trial.r3.st = trial.r1.st
       /\ trial.r3.ret = trial.r1.ret

\* a CFB128 stream cut after its first byte, the offset wrapping in the rest
C8_Witness ==
    /\ trial.phase = "second" /\ trial.kind = "cfb128"
    /\ trial.a = 1 /\ Len(trial.input) = 3 /\ trial.st0.off = BLOCK - 1
    /\ ctx[Caller].enc.keyflag
    /\ trial.r1.st.off = 2

\* C9 (ModeSpec): with the encrypt key and the decrypt key of a context both
\* set to the same key, ECB-decrypting the ECB-encryption of a block gives
\* the block back.
C9_EcbRoundTrip ==
    (/\ trial.phase = "decrypted" /\ trial.kind = "ecb"
     /\ req.enc # NoKey /\ req.dec = req.enc)
    => trial.r2.output = trial.input

\* C10 (ModeSpec): with both keys of a context set to the same key,
\* CBC-decrypting the CBC-encryption of a buffer, each call from a copy of
\* the same IV, gives the buffer back.
C10_CbcRoundTrip ==
    (/\ trial.phase = "decrypted" /\ trial.kind = "cbc"
     /\ req.enc # NoKey /\ req.dec = req.enc)
    => trial.r2.output = trial.input

\* the steps of esp_aes_free after the bzero
FreeSteps == {"free_lock", "free_give", "free_disable", "free_unlock"}

\* esp_aes_free on a live context, at any point after its first statement
FreeOK(t) ==
    frame[t].op = "free"
    => /\ ctx[t] = ZeroCtx
       /\ pc[t] \in {"free_give", "free_disable", "free_unlock"} => lock = t
       /\ pc[t] \in {"free_lock", "free_give"} =>
             (frame[t].edge = <<0, 0>> /\ frame[t].nDisable = 0)
       /\ pc[t] \in {"free_disable", "free_unlock", "done"} =>
             frame[t].edge[2] = frame[t].edge[1] - 1
       /\ pc[t] = "free_disable" => frame[t].nDisable = 0
       /\ pc[t] \in {"free_unlock", "done"} =>
             /\ frame[t].nDisable = (IF frame[t].edge[2] = 0 THEN 1 ELSE 0)
             /\ frame[t].nEnable = 0
       /\ pc[t] = "free_unlock" /\ frame[t].nDisable = 1 => ~engine.enabled

\* C13 (Spec): esp_aes_free on a live context has zeroized both key records
\* before it takes the lock and releases the engine reference; it lowers the
\* refcount by exactly one while holding the lock, and it disables the
\* engine exactly when the refcount it left is 0.  esp_aes_free(NULL) leaves
\* the refcount, the engine and the lock as they were.
C13_FreeZeroizesThenReleases ==
    [][\A t \in Threads :
          /\ FreeOK(t)'
          /\ (Idle(t) /\ frame'[t].op = "free_null") =>
                (/\ refcount' = refcount /\ engine' = engine /\ lock' = lock
                 /\ ctx' = ctx /\ Done(t)')
          /\ (pc[t] \in FreeSteps /\ pc'[t] # pc[t] /\ refcount' # refcount) =>
                (pc[t] = "free_give" /\ lock = t /\ refcount' = refcount - 1)]_vars

\* a free of a context with a key set, while the other context is live: the
\* records are gone, the count went from 2 to 1 and the engine stays on
C13_Witness ==
    \E t \in Threads :
        /\ Done(t) /\ frame[t].op = "free"
        /\ frame[t].ctx0.enc.keyflag /\ frame[t].ctx0.dec.keyflag
        /\ ctx[t] = ZeroCtx
        /\ frame[t].edge = <<2, 1>> /\ frame[t].nDisable = 0
        /\ engine.enabled

\* C14 (Spec): every key put on the engine is put there by a thread that
\* holds the lock; a call of esp_aes_setkey_enc or esp_aes_setkey_dec puts
\* no key on the engine.
C14_InstallUnderLock ==
    \A t \in Threads :
        /\ frame[t].nUnlocked = 0
        /\ frame[t].op \in {"setkey_enc", "setkey_dec"} => frame[t].nInstall = 0

\* C19 (FairSpec): a thread that is not inside a call does not hold the
\* lock, and a thread about to call AES_LOCK does not hold it; and with a
\* lock that is eventually granted to each waiter every call in progress,
\* of any thread, returns.
C19_LockReleasedCallsReturn ==
    /\ [](\A t \in Threads :
            /\ ~InCall(t) => lock # t
            /\ pc[t] \in {"init_lock", "free_lock", "ecb_lock"} => lock # t)
    /\ \A t \in Threads : InCall(t) ~> Done(t)

\* a thread has come back from a CBC call while the other thread is inside
\* a call and holds the lock
C19_Witness ==
    \E t, u \in Threads :
        /\ Done(t) /\ frame[t].op = "cbc" /\ frame[t].nLock > 0
        /\ InCall(u) /\ lock = u

\* the calls that transform blocks
BlockOps == {"ecb", "cbc", "cfb128", "cfb8", "ctr"}

\* C20 (Spec): no step of esp_aes_crypt_ecb, _cbc, _cfb128, _cfb8 or _ctr
\* changes the caller's key records, the refcount or the power state of the
\* engine, whether the key of the direction is set or not.
C20_BlockOpsFrame ==
    [][\A t \in Threads :
          (pc'[t] # pc[t] /\ (frame[t].op \in BlockOps \/ frame'[t].op \in BlockOps))
          => /\ ctx'[t] = ctx[t]
             /\ refcount' = refcount
             /\ engine'.enabled = engine.enabled]_vars

\* a CFB8 call on a context with no encrypt key: it transformed a block and
\* the records are still unset
C20_Witness ==
    \E t \in Threads :
        /\ Done(t) /\ frame[t].op = "cfb8" /\ frame[t].nxf > 0
        /\ ~frame[t].ctx0.enc.keyflag
        /\ ctx[t] = frame[t].ctx0

\* the block esp_aes_crypt_ecb( ctx, AES_ENCRYPT, blk, . ) is to write for a
\* call whose context was c at entry and whose transform found the engine
\* as used: the encryption under the recorded encrypt key when that is set
EcbEncryption(c, used, blk) ==
    IF IsSet(c, AES_ENCRYPT)
    THEN encryptBlock(c.enc.keybits, SubSeq(c.enc.key, 1, c.enc.keybits \div 8), blk)
    ELSE ets_aes_crypt(used, blk)

\* C15 (StreamSpec): CFB128, CFB8 and CTR, in either mode, hand
\* esp_aes_process_enable the encrypt direction only, put no schedule on the
\* engine but that of the context's encrypt key record, and transform with
\* that schedule; the decrypt record is not read and not installed.
C15_StreamUsesEncryptKey ==
    LET f == frame[Caller]
    IN  f.op \in {"cfb128", "cfb8", "ctr"}
        => /\ f.dirs \subseteq {AES_ENCRYPT}
           /\ f.installed \subseteq {Wanted(ctx[Caller].enc, AES_ENCRYPT)}
           /\ (f.nxf > 0 /\ IsSet(f.ctx0, AES_ENCRYPT)) =>
                 (/\ Schedule(f.used) = Wanted(ctx[Caller].enc, AES_ENCRYPT)
                  /\ f.nInstall >= f.nxf)

\* a CFB128 call in AES_DECRYPT mode on a context with both keys set
C15_Witness ==
    LET f == frame[Caller]
    IN  /\ Done(Caller) /\ f.op = "cfb128" /\ f.mode = AES_DECRYPT
        /\ ctx[Caller].enc.keyflag /\ ctx[Caller].dec.keyflag
        /\ f.nInstall > 0
        /\ f.installed = {Wanted(ctx[Caller].enc, AES_ENCRYPT)}

\* the last 16 bytes of  iv  followed by the first k bytes of  bytes
LastBlock(iv, bytes, k) ==
    LET all == iv \o SubSeq(bytes, 1, k)
    IN  SubSeq(all, k + 1, k + BLOCK)

\* C16 (StreamSpec): after each byte of esp_aes_crypt_cfb8, in both modes:
\* the output byte is byte 0 of the ECB encryption of the IV the step began
\* with, XOR the input byte; the IV is that IV shifted left by one byte with
\* the ciphertext byte of the step (output byte when encrypting, input byte
\* when decrypting) as byte 15.
C16_Cfb8Step ==
    LET f == frame[Caller]
        ct == IF f.mode = AES_DECRYPT THEN f.input ELSE f.output
        before == LastBlock(f.st0.iv, ct, f.pos - 1)
    IN  (f.op = "cfb8" /\ pc[Caller] \in {"cfb8_loop", "done"} /\ f.pos > 0)
        => /\ f.output[f.pos]
                = Xor(EcbEncryption(f.ctx0, f.used, before)[1], f.input[f.pos])
           /\ f.iv = [i \in 1..BLOCK |-> IF i < BLOCK THEN before[i + 1]
                                          ELSE ct[f.pos]]
           /\ Len(f.output) = f.pos

\* a CFB8 decryption of 17 bytes: every byte of the starting IV has left
C16_Witness ==
    LET f == frame[Caller]
    IN  /\ Done(Caller) /\ f.op = "cfb8" /\ f.mode = AES_DECRYPT
        /\ f.len0 = BLOCK + 1 /\ f.pos = f.len0
        /\ IsSet(f.ctx0, AES_ENCRYPT)
        /\ f.iv = SubSeq(f.input, 2, BLOCK + 1)

\* a + m as a 128-bit big-endian integer, modulo 2^128
RECURSIVE AddBE(_, _, _)
AddBE(a, m, i) ==
    IF i = 0 THEN a
    ELSE LET sum == a[i] + m
         IN  AddBE([a EXCEPT ![i] = sum % 256], sum \div 256, i - 1)

\* how many of the first k bytes of a stream that starts at offset off are
\* processed at offset 0
AtZero(off, k) == Cardinality({j \in 0..(k - 1) : (off + j) % BLOCK = 0})

\* C17 (StreamSpec): in esp_aes_crypt_ctr the nonce counter is its starting
\* value plus, as a 128-bit big-endian integer modulo 2^128, the number of
\* bytes processed at offset 0 so far; the stream block is the starting one
\* until the first such byte and from then on the ECB encryption of the
\* counter value the last such byte found; on return the counter is the
\* starting value plus the number of bytes of the call processed at offset 0.
C17_CtrCounter ==
    LET f == frame[Caller]
        \* the refresh is made, the increment of the same pass is not yet
        pending == pc[Caller] = "ecb_unlock" \/ (pc[Caller] = "ctr_post" /\ f.n = 0)
        incs == IF pending THEN f.nxf - 1 ELSE f.nxf
    IN  f.op = "ctr"
        => /\ f.nc = AddBE(f.st0.nc, incs, BLOCK)
           /\ f.nxf = 0 => f.sb = f.st0.sb
           /\ f.nxf > 0 =>
                 f.sb = EcbEncryption(f.ctx0, f.used, AddBE(f.st0.nc, f.nxf - 1, BLOCK))
           /\ pc[Caller] \in {"ctr_loop", "done"} => f.nxf = AtZero(f.st0.off, f.pos)
           /\ Done(Caller) =>
                 f.nc = AddBE(f.st0.nc, AtZero(f.st0.off, f.len0), BLOCK)

\* 17 bytes from offset 0 with the all-0xFF counter: two refreshes, the
\* counter wraps to zero and goes on to one
C17_Witness ==
    LET f == frame[Caller]
    IN  /\ Done(Caller) /\ f.op = "ctr" /\ f.len0 = BLOCK + 1
        /\ f.st0.off = 0 /\ f.st0.nc = Fill(BLOCK, 255)
        /\ f.nxf = 2
        /\ f.nc = [i \in 1..BLOCK |-> IF i = BLOCK THEN 1 ELSE 0]
        /\ f.sb # f.st0.sb

\* C18 (StreamSpec): in esp_aes_crypt_cfb128 and esp_aes_crypt_ctr started
\* at an offset in [0,16) the offset is in [0,16) after every byte and is
\* the starting offset plus the bytes processed, modulo 16; the offset
\* written back on return is (starting offset + length) mod 16; and
\* esp_aes_crypt_ecb is called once for each byte processed at offset 0 and
\* for no other byte.
C18_OffsetAndRefresh ==
    LET f == frame[Caller]
        inEcb == pc[Caller] \in {"ecb_lock", "ecb_enable", "ecb_crypt", "ecb_unlock"}
        refreshed == pc[Caller] = "ecb_unlock"
                     \/ (pc[Caller] \in {"cfb128_post", "ctr_post"} /\ f.n = 0)
    IN  f.op \in {"cfb128", "ctr"}
        => /\ f.n \in 0..(BLOCK - 1)
           /\ f.n = (f.st0.off + f.pos) % BLOCK
           /\ inEcb => f.n = 0
           /\ f.nxf = AtZero(f.st0.off, f.pos) + (IF refreshed THEN 1 ELSE 0)
           /\ Done(Caller) =>
                 /\ f.pos = f.len0
                 /\ f.off = (f.st0.off + f.len0) % BLOCK
                 /\ f.nxf = AtZero(f.st0.off, f.len0)

\* 17 bytes of CFB128 from offset 15: the offset wraps twice, one refresh
C18_Witness ==
    LET f == frame[Caller]
    IN  /\ Done(Caller) /\ f.op = "cfb128" /\ f.len0 = BLOCK + 1
        /\ f.st0.off = BLOCK - 1 /\ f.off = 0 /\ f.nxf = 1

\* C11 (ModeSpec): on a context whose encrypt key is set, CFB128 in
\* AES_DECRYPT mode applied to the output of CFB128 in AES_ENCRYPT mode, both
\* from copies of the same IV and the same starting offset in [0,16), gives
\* the plaintext back, for every length; and so does CFB8 from copies of the
\* same IV.
C11_CfbRoundTrip ==
    (/\ trial.phase = "decrypted" /\ trial.kind \in {"cfb128", "cfb8"}
     /\ IsSet(ctx[Caller], AES_ENCRYPT))
    => /\ trial.r2.output = trial.input
       /\ trial.r2.ret = OK

\* a CFB128 round trip of three bytes whose feedback enters the keystream:
\* the refresh comes after two bytes
C11_Witness ==
    /\ trial.phase = "decrypted" /\ trial.kind = "cfb128"
    /\ IsSet(ctx[Caller], AES_ENCRYPT)
    /\ Len(trial.input) = MaxStream /\ trial.st0.off = BLOCK - 2
    /\ trial.r1.output # trial.input
    /\ trial.r2.output = trial.input

\* C12 (ModeSpec): esp_aes_crypt_ctr applied to its own output, from copies
\* of the same nonce counter, stream block and offset and on the same
\* context, gives the plaintext back.
C12_CtrSelfInverse ==
    (trial.phase = "decrypted" /\ trial.kind = "ctr")
    => /\ trial.r2.output = trial.input
       /\ trial.r2.ret = OK

\* a CTR round trip that starts inside a stream block and refreshes it
C12_Witness ==
    /\ trial.phase = "decrypted" /\ trial.kind = "ctr"
    /\ Len(trial.input) = MaxStream /\ trial.st0.off = BLOCK - 1
    /\ trial.st0.nc = NonceB
    /\ trial.r1.output # trial.input
    /\ trial.r2.output = trial.input
    /\ trial.r2.st.nc = Fill(BLOCK, 0)

====
